---- MODULE Spec2Model ----
(***************************************************************************)
(* Model of oit/packages/image.py: DistGitRepo.update_distgit_dir and the  *)
(* methods it calls (_merge_source, source_path, _run_modifications).      *)
(*                                                                         *)
(* Text.  A Python string is a sequence of symbols.  A symbol is a TLA+    *)
(* string standing for a run of characters that no operation of the code   *)
(* ever has to split: the newline "\n", one blank " ", a keyword, a name,  *)
(* a value, the marker "#oit##", a whole comment sentence.  A symbol other *)
(* than "\n" and " " neither begins nor ends with whitespace.  File names  *)
(* are texts too: <<".", "gitignore">>, <<"Dockerfile", ".", "centos">>.   *)
(*                                                                         *)
(* Optional values.  model.Missing is the empty tuple; a present value x   *)
(* is the one-element tuple <<x>>.                                         *)
(***************************************************************************)
EXTENDS Integers, Sequences, FiniteSets, TLC

\* ------------------------------------------------------------------ bounds
\* update_distgit_dir calls on one DistGitRepo
MaxRuns == 3

\* rules in content.source.modifications
MaxMods == 2

\* ------------------------------------------------------------- option type
Missing == <<>>

Some(x) == <<x>>

Get(o) == o[1]

\* ----------------------------------------------------------- Python strings
NL == "\n"

SP == " "

IsSpace(s) == s \in {SP, NL, "\t"}

\* str.startswith
StartsWith(t, p) ==
    /\ Len(p) <= Len(t)
    /\ SubSeq(t, 1, Len(p)) = p

RECURSIVE LStrip(_)
LStrip(t) ==
    IF t # <<>> /\ IsSpace(Head(t)) THEN LStrip(Tail(t)) ELSE t

RECURSIVE RStrip(_)
RStrip(t) ==
    IF t # <<>> /\ IsSpace(t[Len(t)]) THEN RStrip(SubSeq(t, 1, Len(t) - 1)) ELSE t

\* str.strip
Strip(t) == RStrip(LStrip(t))

\* The lines of t with their terminators, as str.splitlines(True): a final
\* line without terminator is a line; an empty string has no lines.
RECURSIVE SplitKeep(_, _)
SplitKeep(t, cur) ==
    IF t = <<>> THEN (IF cur = <<>> THEN <<>> ELSE <<cur>>)
    ELSE IF Head(t) = NL THEN <<Append(cur, NL)>> \o SplitKeep(Tail(t), <<>>)
    ELSE SplitKeep(Tail(t), Append(cur, Head(t)))

DropNL(line) ==
    IF line # <<>> /\ line[Len(line)] = NL THEN SubSeq(line, 1, Len(line) - 1) ELSE line

\* str.splitlines(False)
SplitLines(t) ==
    LET ls == SplitKeep(t, <<>>) IN [i \in 1..Len(ls) |-> DropNL(ls[i])]

\* sep.join(lines)
RECURSIVE Join(_, _)
Join(sep, ls) ==
    IF ls = <<>> THEN <<>>
    ELSE IF Len(ls) = 1 THEN ls[1]
    ELSE ls[1] \o sep \o Join(sep, Tail(ls))

\* concatenation of a list of strings
RECURSIVE Flatten(_)
Flatten(ls) == IF ls = <<>> THEN <<>> ELSE Head(ls) \o Flatten(Tail(ls))

\* str.replace(match, replacement): the non-overlapping occurrences of match,
\* found left to right, are replaced; an empty match occurs before every
\* character and at the end.
RECURSIVE ReplaceNonEmpty(_, _, _)
ReplaceNonEmpty(t, m, r) ==
    IF Len(t) < Len(m) THEN t
    ELSE IF StartsWith(t, m) THEN r \o ReplaceNonEmpty(SubSeq(t, Len(m) + 1, Len(t)), m, r)
    ELSE <<Head(t)>> \o ReplaceNonEmpty(Tail(t), m, r)

RECURSIVE ReplaceEmpty(_, _)
ReplaceEmpty(t, r) ==
    IF t = <<>> THEN r ELSE r \o <<Head(t)>> \o ReplaceEmpty(Tail(t), r)

\* Variant: str.replace(match, replacement, 1), the first occurrence only.
RECURSIVE ReplaceFirst(_, _, _)
ReplaceFirst(t, m, r) ==
    IF Len(t) < Len(m) THEN t
    ELSE IF StartsWith(t, m) THEN r \o SubSeq(t, Len(m) + 1, Len(t))
    ELSE <<Head(t)>> \o ReplaceFirst(Tail(t), m, r)

StrReplaceFirst(t, m, r) ==
    IF m = <<>> THEN r \o t ELSE ReplaceFirst(t, m, r)

StrReplace(t, m, r) ==
    IF m = <<>> THEN ReplaceEmpty(t, r) ELSE ReplaceNonEmpty(t, m, r)

\* ------------------------------------------------- file names and contents
DOCKERFILE == <<"Dockerfile">>

\* The name the configured build-file is renamed to (line 153).
RENAME_TARGET == <<"Dockerilfe">>

OIT_DIR == <<".", "oit">>

ADDITIONAL_TAGS == <<"additional-tags">>

OIT_COMMENT_PREFIX == <<"#oit##", SP>>

\* A directory entry: absent, a regular file with its content, or a directory.
Absent == [kind |-> "absent", data |-> <<>>]

File(t) == [kind |-> "file", data |-> t]

Dir == [kind |-> "dir", data |-> <<>>]

\* os.path.isfile / os.path.isdir
IsFile(e) == e.kind = "file"

IsDir(e) == e.kind = "dir"

\* --------------------------------- DockerfileParser (dockerfile_parse library)
\* One instruction per line; a LABEL line holds one key=value pair.
LabelLine(k, v) == <<"LABEL", SP, k, "=", v>>

FromLine(img) == <<"FROM", SP>> \o img

IsLabelLine(line) ==
    LET l == Strip(line) IN Len(l) = 5 /\ l[1] = "LABEL" /\ l[2] = SP /\ l[4] = "="

IsLabelLineFor(line, k) == IsLabelLine(line) /\ Strip(line)[3] = k

IsFromLine(line) ==
    LET l == Strip(line) IN Len(l) >= 3 /\ l[1] = "FROM" /\ l[2] = SP

\* dfp.labels: the keys the build-file declares
DfLabelKeys(t) ==
    LET ls == SplitKeep(t, <<>>) IN
    {Strip(ls[i])[3] : i \in {j \in 1..Len(ls) : IsLabelLine(ls[j])}}

\* dfp.labels[k] for a declared key: the last declaration wins
DfLabel(t, k) ==
    LET ls == SplitKeep(t, <<>>)
        at == {j \in 1..Len(ls) : IsLabelLineFor(ls[j], k)}
        last == CHOOSE j \in at : \A i \in at : i <= j
    IN Strip(ls[last])[5]

\* dfp.labels[k] = v: a declared key is rewritten in place, a new key is
\* appended as a new last line (after a line break when the content does not
\* end with one).
DfSetLabel(t, k, v) ==
    LET ls == SplitKeep(t, <<>>)
        at == {j \in 1..Len(ls) : IsLabelLineFor(ls[j], k)}
    IN IF at # {}
       THEN LET last == CHOOSE j \in at : \A i \in at : i <= j
            IN Flatten([i \in 1..Len(ls) |->
                   IF i = last THEN Append(LabelLine(k, v), NL) ELSE ls[i]])
       ELSE t \o (IF t # <<>> /\ t[Len(t)] # NL THEN <<NL>> ELSE <<>>)
              \o Append(LabelLine(k, v), NL)

\* dfp.baseimage: the image of the first FROM line
DfBaseImage(t) ==
    LET ls == SplitKeep(t, <<>>)
        at == {j \in 1..Len(ls) : IsFromLine(ls[j])}
    IN IF at = {} THEN Missing
       ELSE LET first == CHOOSE j \in at : \A i \in at : j <= i
                l == Strip(ls[first])
            IN Some(SubSeq(l, 3, Len(l)))

\* dfp.baseimage = img: the first FROM line is rewritten in place
DfSetBaseImage(t, img) ==
    LET ls == SplitKeep(t, <<>>)
        at == {j \in 1..Len(ls) : IsFromLine(ls[j])}
    IN IF at = {} THEN t
       ELSE LET first == CHOOSE j \in at : \A i \in at : j <= i
            IN Flatten([i \in 1..Len(ls) |->
                   IF i = first THEN Append(FromLine(img), NL) ELSE ls[i]])

\* ------------------------------------------------------- names in the model
GITIGNORE == <<".", "gitignore">>

OLD_TXT == <<"old", ".", "txt">>

OLD_DIR == <<"olddir">>

APP_DIR == <<"app">>

MAIN_GO == <<"main", ".", "go">>

DF_CENTOS == <<"Dockerfile", ".", "centos">>

DF_RHEL == <<"Dockerfile", ".", "rhel">>

Names ==
    {DOCKERFILE, RENAME_TARGET, OIT_DIR, ADDITIONAL_TAGS, GITIGNORE, OLD_TXT,
     OLD_DIR, APP_DIR, MAIN_GO, DF_CENTOS, DF_RHEL}

EmptyDir == [n \in Names |-> Absent]

\* ----------------------------------------------------- upstream source trees
SrcDockerfile ==
    <<"FROM", SP, "src", ":", "1", NL,
      "RUN", SP, "build", NL,
      "RUN", SP, "build", SP, "docs", NL,
      "LABEL", SP, "version", "=", "0", NL>>

SrcDockerfileRhel ==
    <<"FROM", SP, "rhel7", NL,
      "RUN", SP, "build", NL>>

SrcDockerfileSub ==
    <<"FROM", SP, "sub", ":", "1", NL,
      "RUN", SP, "install", NL>>

\* The directories below the registered source root, by path; a path that is
\* not in the domain is not a directory.
SOURCE_ROOT == <<"/src">>

SourceDirs ==
    (SOURCE_ROOT :> ((DOCKERFILE :> File(SrcDockerfile))
                     @@ (DF_CENTOS :> File(<<"FROM", SP, "centos", NL>>))
                     @@ (DF_RHEL :> File(SrcDockerfileRhel))
                     @@ (GITIGNORE :> File(<<"upstream-ignore">>))
                     @@ (APP_DIR :> Dir)
                     @@ EmptyDir))
    @@ (<<"/src", "sub">> :> ((DOCKERFILE :> File(SrcDockerfileSub))
                     @@ (MAIN_GO :> File(<<"package-main">>))
                     @@ EmptyDir))
    @@ (<<"/src", "bare">> :> ((MAIN_GO :> File(<<"package-main">>))
                     @@ EmptyDir))

\* ------------------------------------------------------------------ runtime
\* runtime.source_alias
source_alias == ("A" :> SOURCE_ROOT)

\* runtime.resolve_image(member).config.name
resolve_image(member) == IF member = "base-member" THEN "openshift3/base" ELSE "openshift3/other"

\* runtime.resolve_stream(stream).image
resolve_stream(stream) == IF stream = "rhel" THEN <<"rhel7", ":", "7-released">> ELSE <<"golang", ":", "1.8">>

\* metadata.name, the name of the distgit repository
METADATA_NAME == "foo"

\* os.path.abspath("Dockerfile") inside the distgit directory
AbsDockerfile == <<"/distgits", "/", METADATA_NAME, "/">> \o DOCKERFILE

\* --------------------------------------------------- configuration accessors
\* config.content.source and the fields below it; Missing propagates through
\* attribute access, so a field of a Missing section is Missing.
SourceOf(c) == c.source

\* Variant: the merge is not made conditional on the source section.
SourceConfiguredAlways(c) == TRUE

SourceConfigured(c) == SourceOf(c) # Missing

SourceField(c, f) == IF SourceOf(c) = Missing THEN Missing ELSE Get(SourceOf(c))[f]

ModificationsOf(c) == SourceField(c, "modifications")

\* Variant: an empty rule list counts as no modifications section.
ModificationsConfiguredNonEmpty(c) ==
    ModificationsOf(c) # Missing /\ Len(Get(ModificationsOf(c))) > 0

ModificationsConfigured(c) == ModificationsOf(c) # Missing

\* ------------------------------------------------------------- _merge_source
\* ent.startswith(".")
IsHidden(ent) == StartsWith(ent, <<".">>)

\* Variant: the allow-list spells the special file differently.
IsSpecialMisspelt(ent) == ent \in {<<"additional_tags">>}

\* ent in ["additional-tags"]
IsSpecial(ent) == ent \in {ADDITIONAL_TAGS}

\* Lines 123-138: every entry that is neither hidden nor special is removed,
\* a file by os.remove and anything else by shutil.rmtree.
PreClean(dir) ==
    [n \in Names |-> IF IsHidden(n) \/ IsSpecial(n) THEN dir[n] ELSE Absent]

\* source_path(): the directory to copy from, or the error it raises.
source_path(c) ==
    LET alias == SourceField(c, "alias")
        sub_path == SourceField(c, "path")
    IN IF alias = Missing THEN [err |-> "IOError: no source alias", path |-> <<>>]
       ELSE IF Get(alias) \notin DOMAIN source_alias
            THEN [err |-> "IOError: alias not registered", path |-> <<>>]
       ELSE LET source_root == source_alias[Get(alias)]
                path == IF sub_path # Missing
                        THEN source_root \o <<Get(sub_path)>>
                        ELSE source_root
            IN IF path \in DOMAIN SourceDirs
               THEN [err |-> "", path |-> path]
               ELSE [err |-> "assert_dir: no such directory", path |-> path]

\* recursive_overwrite(src, dest): every entry of src is copied over the
\* entry of the same name; entries only dest has are kept.
recursive_overwrite(src, dest) ==
    [n \in Names |-> IF src[n] # Absent THEN src[n] ELSE dest[n]]

\* Lines 145-153: a configured build-file name other than "Dockerfile".
\* os.rename raises OSError when the configured file does not exist.
RenameDockerfile(dir, c) ==
    LET dockerfile_name == SourceField(c, "dockerfile") IN
    IF dockerfile_name # Missing /\ Get(dockerfile_name) # DOCKERFILE
    THEN LET removed == IF IsFile(dir[DOCKERFILE])
                        THEN [dir EXCEPT ![DOCKERFILE] = Absent]
                        ELSE dir
         IN IF removed[Get(dockerfile_name)] = Absent
            THEN [err |-> "OSError: rename", dir |-> removed]
            ELSE [err |-> "",
                  dir |-> [removed EXCEPT ![RENAME_TARGET] = removed[Get(dockerfile_name)],
                                          ![Get(dockerfile_name)] = Absent]]
    ELSE [err |-> "", dir |-> dir]

\* Lines 156-158
CleanStray(dir) ==
    [n \in Names |-> IF StartsWith(n, <<"Dockerfile", ".">>) THEN Absent ELSE dir[n]]

\* filecmp.cmp(a, b, False) on two regular files
FileCmp(a, b) == a = b

\* Variant: notify_owner starts as True, so an unchanged build-file notifies too.
DriftDetectNotifyAlways(dir, snap) ==
    IF snap # Missing
    THEN IF ~IsFile(dir[DOCKERFILE])
         THEN [err |-> "OSError: filecmp", notify_owner |-> FALSE, snap |-> snap]
         ELSE IF ~FileCmp(Get(snap), dir[DOCKERFILE].data)
              THEN [err |-> "", notify_owner |-> TRUE, snap |-> Some(dir[DOCKERFILE].data)]
              ELSE [err |-> "", notify_owner |-> TRUE, snap |-> snap]
    ELSE [err |-> "", notify_owner |-> TRUE, snap |-> snap]

\* Variant: a changed build-file notifies, but the old snapshot is kept.
DriftDetectKeepsSnapshot(dir, snap) ==
    IF snap # Missing
    THEN IF ~IsFile(dir[DOCKERFILE])
         THEN [err |-> "OSError: filecmp", notify_owner |-> FALSE, snap |-> snap]
         ELSE IF ~FileCmp(Get(snap), dir[DOCKERFILE].data)
              THEN [err |-> "", notify_owner |-> TRUE, snap |-> snap]
              ELSE [err |-> "", notify_owner |-> FALSE, snap |-> snap]
    ELSE [err |-> "", notify_owner |-> TRUE, snap |-> snap]

\* Variant: the first reconciliation writes the snapshot.
DriftDetectBootstraps(dir, snap) ==
    IF snap # Missing
    THEN IF ~IsFile(dir[DOCKERFILE])
         THEN [err |-> "OSError: filecmp", notify_owner |-> FALSE, snap |-> snap]
         ELSE IF ~FileCmp(Get(snap), dir[DOCKERFILE].data)
              THEN [err |-> "", notify_owner |-> TRUE, snap |-> Some(dir[DOCKERFILE].data)]
              ELSE [err |-> "", notify_owner |-> FALSE, snap |-> snap]
    ELSE [err |-> "", notify_owner |-> TRUE,
          snap |-> IF IsFile(dir[DOCKERFILE]) THEN Some(dir[DOCKERFILE].data) ELSE snap]

\* Lines 160-175.  snap is the content of .oit/Dockerfile.git.last, if the
\* file exists.  filecmp.cmp raises OSError when "Dockerfile" does not exist.
DriftDetect(dir, snap) ==
    IF snap # Missing
    THEN IF ~IsFile(dir[DOCKERFILE])
         THEN [err |-> "OSError: filecmp", notify_owner |-> FALSE, snap |-> snap]
         ELSE IF ~FileCmp(Get(snap), dir[DOCKERFILE].data)
              THEN [err |-> "", notify_owner |-> TRUE, snap |-> Some(dir[DOCKERFILE].data)]
              ELSE [err |-> "", notify_owner |-> FALSE, snap |-> snap]
    ELSE [err |-> "", notify_owner |-> TRUE, snap |-> snap]

\* ", ".join(owners)
RECURSIVE JoinOwners(_)
JoinOwners(owners) ==
    IF owners = <<>> THEN <<>>
    ELSE IF Len(owners) = 1 THEN <<owners[1]>>
    ELSE <<owners[1], ",", SP>> \o JoinOwners(Tail(owners))

\* Lines 178-180: the records this merge adds to the record sink
NotifyRecords(notify_owner, c) ==
    IF notify_owner /\ c.owners # Missing
    THEN <<[type |-> "dockerfile_notify",
            distgit |-> METADATA_NAME,
            dockerfile |-> AbsDockerfile,
            owners |-> JoinOwners(Get(c.owners))]>>
    ELSE <<>>

\* Lines 182-186
MergeComments ==
    <<<<"The content of this file is managed from external source.">>,
      <<"Changes made directly in distgit will be lost during the next">>,
      <<"reconciliation process.">>,
      <<>>>>

\* Variant: the source path is resolved before the checkout is cleaned.
merge_source_resolve_first(dir, snap, c) ==
    LET sp == source_path(c)
        cleaned == IF sp.err # "" THEN dir ELSE PreClean(dir)
        stop(e, d, cp) == [err |-> e, dir |-> d, snap |-> snap, records |-> <<>>,
                           comments |-> <<>>, cleaned |-> cleaned, copied |-> cp,
                           notify |-> Missing]
    IN IF sp.err # "" THEN stop(sp.err, cleaned, Missing)
       ELSE LET copied == recursive_overwrite(SourceDirs[sp.path], cleaned)
                rn == RenameDockerfile(copied, c)
            IN IF rn.err # "" THEN stop(rn.err, rn.dir, Some(copied))
               ELSE LET merged == CleanStray(rn.dir)
                        dd == DriftDetect(merged, snap)
                    IN IF dd.err # "" THEN stop(dd.err, merged, Some(copied))
                       ELSE [err |-> "", dir |-> merged, snap |-> dd.snap,
                             records |-> NotifyRecords(dd.notify_owner, c),
                             comments |-> MergeComments, cleaned |-> cleaned,
                             copied |-> Some(copied),
                             notify |-> Some(dd.notify_owner)]

\* _merge_source as a whole: the directory, snapshot, records and comment
\* lines it leaves behind, and the error that ended it ("" when it returned).
\* cleaned and copied report the directory after the pre-clean and after the
\* copy (copied is Missing when the copy was not reached), notify the value
\* of notify_owner (Missing when the drift step did not complete).
merge_source(dir, snap, c) ==
    LET cleaned == PreClean(dir)
        sp == source_path(c)
        stop(e, d, cp) == [err |-> e, dir |-> d, snap |-> snap, records |-> <<>>,
                           comments |-> <<>>, cleaned |-> cleaned, copied |-> cp,
                           notify |-> Missing]
    IN IF sp.err # "" THEN stop(sp.err, cleaned, Missing)
       ELSE LET copied == recursive_overwrite(SourceDirs[sp.path], cleaned)
                rn == RenameDockerfile(copied, c)
            IN IF rn.err # "" THEN stop(rn.err, rn.dir, Some(copied))
               ELSE LET merged == CleanStray(rn.dir)
                        dd == DriftDetect(merged, snap)
                    IN IF dd.err # "" THEN stop(dd.err, merged, Some(copied))
                       ELSE [err |-> "", dir |-> merged, snap |-> dd.snap,
                             records |-> NotifyRecords(dd.notify_owner, c),
                             comments |-> MergeComments, cleaned |-> cleaned,
                             copied |-> Some(copied),
                             notify |-> Some(dd.notify_owner)]

\* --------------------------------------------------------- _run_modifications
\* Variant: a replace that changes nothing is accepted.
ApplyModificationSilently(data, modification) ==
    IF modification.action = "replace"
    THEN IF modification.match = Missing
         THEN [err |-> "AssertionError: match", data |-> data]
         ELSE IF modification.replacement = Missing
         THEN [err |-> "AssertionError: replacement", data |-> data]
         ELSE [err |-> "",
               data |-> StrReplace(data, Get(modification.match),
                                   Get(modification.replacement))]
    ELSE [err |-> "IOError: unknown modification action", data |-> data]

\* One pass of the loop body (lines 200-212) over the text data: the text the
\* rule leaves and the error it raises.
ApplyModification(data, modification) ==
    IF modification.action = "replace"
    THEN IF modification.match = Missing
         THEN [err |-> "AssertionError: match", data |-> data]
         ELSE IF modification.replacement = Missing
         THEN [err |-> "AssertionError: replacement", data |-> data]
         ELSE LET pre == data
                  post == StrReplace(pre, Get(modification.match),
                                     Get(modification.replacement))
              IN IF post = pre
                 THEN [err |-> "IOError: replace did not make a change", data |-> pre]
                 ELSE [err |-> "", data |-> post]
    ELSE [err |-> "IOError: unknown modification action", data |-> data]

\* Variant: every rule is applied to the text that was read, not to the text
\* the rule before it left.
RECURSIVE ModificationLoopOnOriginal(_, _, _, _)
ModificationLoopOnOriginal(data, modifications, i, seen) ==
    IF i > Len(modifications) THEN [err |-> "", data |-> data, seen |-> seen, at |-> 0]
    ELSE LET original == IF seen = <<>> THEN data ELSE seen[1]
             r == ApplyModification(original, modifications[i])
         IN IF r.err # ""
            THEN [err |-> r.err, data |-> data, seen |-> Append(seen, original), at |-> i]
            ELSE ModificationLoopOnOriginal(r.data, modifications, i + 1,
                                            Append(seen, original))

\* The loop of lines 199-212 from rule i on.  seen lists the text every rule
\* reached so far was given.
RECURSIVE ModificationLoop(_, _, _, _)
ModificationLoop(data, modifications, i, seen) ==
    IF i > Len(modifications) THEN [err |-> "", data |-> data, seen |-> seen, at |-> 0]
    ELSE LET r == ApplyModification(data, modifications[i]) IN
         IF r.err # ""
         THEN [err |-> r.err, data |-> data, seen |-> Append(seen, data), at |-> i]
         ELSE ModificationLoop(r.data, modifications, i + 1, Append(seen, data))

\* Variant: the text is written back after the loop however it ended.
run_modifications_write_always(dir, c) ==
    LET dockerfile_data == dir[DOCKERFILE].data
        r == ModificationLoop(dockerfile_data, Get(ModificationsOf(c)), 1, <<>>)
    IN [err |-> r.err,
        dir |-> [dir EXCEPT ![DOCKERFILE] = File(r.data)],
        seen |-> r.seen,
        at |-> r.at]

\* _run_modifications as a whole: the build-file is read, the rules are
\* applied to the text in memory, and the text is written back only when the
\* loop has ended without an error.
run_modifications(dir, c) ==
    LET dockerfile_data == dir[DOCKERFILE].data
        r == ModificationLoop(dockerfile_data, Get(ModificationsOf(c)), 1, <<>>)
    IN [err |-> r.err,
        dir |-> IF r.err = "" THEN [dir EXCEPT ![DOCKERFILE] = File(r.data)] ELSE dir,
        seen |-> r.seen,
        at |-> r.at]

\* --------------------------------------------- update_distgit_dir, lines 249-299
BaseComments ==
    <<<<"This file is managed by the OpenShift Image tool: github.com/openshift/enterprise-images">>,
      <<"by the OpenShift Continuous Delivery team (#aos-cd-team on IRC).">>,
      <<>>>>

NoSourceComments ==
    <<<<"Some aspects of this file may be managed programmatically. For example, the image name, labels (version,">>,
      <<"release, and other), and the base FROM. Changes made directly in distgit may be lost during the next">>,
      <<"reconciliation.">>,
      <<>>>>

\* Lines 256-258: every configured label, in the order the dictionary yields
RECURSIVE SetConfigLabels(_, _)
SetConfigLabels(t, labels) ==
    IF labels = <<>> THEN t
    ELSE SetConfigLabels(DfSetLabel(t, labels[1][1], labels[1][2]), Tail(labels))

\* Variant: a label the build-file already declares keeps its value.
RECURSIVE SetConfigLabelsIfNew(_, _)
SetConfigLabelsIfNew(t, labels) ==
    IF labels = <<>> THEN t
    ELSE SetConfigLabelsIfNew(
             IF labels[1][1] \in DfLabelKeys(t) THEN t
             ELSE DfSetLabel(t, labels[1][1], labels[1][2]),
             Tail(labels))

ConfigLabelsIfNew(t, c) ==
    IF c.labels # Missing THEN SetConfigLabelsIfNew(t, Get(c.labels)) ELSE t

ConfigLabels(t, c) ==
    IF c.labels # Missing THEN SetConfigLabels(t, Get(c.labels)) ELSE t

\* Lines 260-264
NameLabels(t, c) ==
    DfSetLabel(DfSetLabel(t, "name", c.name), "com.redhat.component", METADATA_NAME)

\* "%s:%s-%s" % (name, version, release)
MemberImage(name, version, release) == <<name, ":", version, "-", release>>

\* Lines 266-281: the three forms of the base image, in the order of the code
FromMember(t, c, version, release) ==
    IF c.from.member # Missing
    THEN DfSetBaseImage(t, MemberImage(resolve_image(Get(c.from.member)), version, release))
    ELSE t

FromImage(t, c) ==
    IF c.from.image # Missing THEN DfSetBaseImage(t, Get(c.from.image)) ELSE t

FromStream(t, c) ==
    IF c.from.stream # Missing
    THEN DfSetBaseImage(t, resolve_stream(Get(c.from.stream)))
    ELSE t

\* Variant: the member form is evaluated last.
SetBaseImageMemberLast(t, c, version, release) ==
    FromMember(FromStream(FromImage(t, c), c), c, version, release)

SetBaseImage(t, c, version, release) ==
    FromStream(FromImage(FromMember(t, c, version, release), c), c)

\* Lines 283-288
VersionLabels(t, c, version, release) ==
    DfSetLabel(DfSetLabel(DfSetLabel(t, "name", c.name), "version", version),
               "release", release)

\* Line 292: the test of the list comprehension
IsOitComment(line) == StartsWith(Strip(line), OIT_COMMENT_PREFIX)

\* Lines 291-292
RECURSIVE DropOitComments(_)
DropOitComments(df_lines) ==
    IF df_lines = <<>> THEN <<>>
    ELSE IF ~IsOitComment(Head(df_lines))
         THEN <<Head(df_lines)>> \o DropOitComments(Tail(df_lines))
         ELSE DropOitComments(Tail(df_lines))

\* Lines 297-298: "%s%s\n" % (OIT_COMMENT_PREFIX, comment) for every comment
RECURSIVE CommentHeader(_)
CommentHeader(comments) ==
    IF comments = <<>> THEN <<>>
    ELSE OIT_COMMENT_PREFIX \o Head(comments) \o <<NL>> \o CommentHeader(Tail(comments))

\* Lines 249-299: the content written to the build-file, from the content
\* the parser read.
rewrite(content, c, version, release, comments) ==
    LET labelled == VersionLabels(
                      SetBaseImage(NameLabels(ConfigLabels(content, c), c),
                                   c, version, release),
                      c, version, release)
        df_lines == DropOitComments(SplitLines(labelled))
        df_content == Join(<<NL>>, df_lines)
    IN CommentHeader(comments) \o df_content

\* ------------------------------------------------------------------- inputs
\* config.name
CONFIG_NAME == "openshift3/foo"

Rules ==
    {[action |-> "replace", match |-> Some(<<"build">>), replacement |-> Some(<<"make">>)],
     [action |-> "replace", match |-> Some(<<"make">>), replacement |-> Some(<<"make", SP, "all">>)],
     [action |-> "replace", match |-> Some(<<"RUN", SP, "build">>), replacement |-> Some(<<"RUN", SP, "build">>)],
     [action |-> "replace", match |-> Some(<<"yum">>), replacement |-> Some(<<"dnf">>)],
     [action |-> "replace", match |-> Some(<<"yum">>), replacement |-> Missing],
     [action |-> "replace", match |-> Missing, replacement |-> Some(<<"dnf">>)],
     [action |-> "delete", match |-> Some(<<"build">>), replacement |-> Missing]}

RECURSIVE RuleLists(_)
RuleLists(n) ==
    IF n = 0 THEN {<<>>}
    ELSE RuleLists(n - 1) \cup
         {Append(l, r) : l \in {x \in RuleLists(n - 1) : Len(x) = n - 1}, r \in Rules}

Aliases == {Missing, Some("A"), Some("B")}

SubPaths == {Missing, Some("sub"), Some("bare"), Some("gone")}

DockerfileNames == {Missing, Some(DOCKERFILE), Some(DF_RHEL)}

LabelConfigs ==
    {Missing,
     Some(<<<<"release-type", "stable">>>>),
     Some(<<<<"name", "bogus">>, <<"keep", "configured">>, <<"version", "0.0">>>>)}

OwnerConfigs == {Missing, Some(<<>>), Some(<<"alice", "bob">>)}

FromConfigs ==
    [member : {Missing, Some("base-member")},
     image : {Missing, Some(<<"base", ":", "latest">>)},
     stream : {Missing, Some("rhel")}]

DefaultFrom == [member |-> Missing, image |-> Some(<<"base", ":", "latest">>), stream |-> Missing]

DefaultSource ==
    Some([alias |-> Some("A"), path |-> Missing, dockerfile |-> Missing,
          modifications |-> Missing])

Config(source, labels, owners, from) ==
    [name |-> CONFIG_NAME, source |-> source, labels |-> labels, owners |-> owners,
     from |-> from]

\* The configurations of the model: every shape of the source section with
\* the owners, every list of rules over the two source trees that hold a
\* build-file, and every combination of labels and base image forms with and
\* without a source section.
MergeConfigs ==
    {Config(Some([alias |-> a, path |-> p, dockerfile |-> d, modifications |-> m]),
            Some(<<<<"release-type", "stable">>>>), o, DefaultFrom) :
        a \in Aliases, p \in SubPaths, d \in DockerfileNames,
        m \in {Missing, Some(<<[action |-> "replace", match |-> Some(<<"build">>),
                                replacement |-> Some(<<"make">>)]>>)},
        o \in OwnerConfigs}

ModificationConfigs ==
    {Config(Some([alias |-> Some("A"), path |-> p, dockerfile |-> Missing,
                  modifications |-> Some(m)]),
            Missing, Some(<<"alice", "bob">>), DefaultFrom) :
        p \in {Missing, Some("sub")}, m \in RuleLists(MaxMods)}

RewriteConfigs ==
    {Config(s, l, Some(<<"alice", "bob">>), f) :
        s \in {Missing, DefaultSource}, l \in LabelConfigs, f \in FromConfigs}

Configs == MergeConfigs \cup ModificationConfigs \cup RewriteConfigs

Versions == {"1.2", "1.3"}

Releases == {"3"}

\* Build-files a distgit checkout may hold before the first call
PlainDockerfile ==
    <<"FROM", SP, "old", ":", "1", NL,
      "RUN", SP, "make", NL>>

ManagedDockerfile ==
    <<SP, SP, "#oit##", SP, "Header of an earlier tool version", NL,
      "FROM", SP, "centos", ":", "7", NL,
      "LABEL", SP, "name", "=", "stale", NL,
      "LABEL", SP, "keep", "=", "parsed", NL,
      "LABEL", SP, "vendor", "=", "Red Hat", NL,
      "RUN", SP, "make">>

CheckoutDockerfiles == {Absent, File(PlainDockerfile), File(ManagedDockerfile)}

Snapshots == {Missing, Some(SrcDockerfile), Some(PlainDockerfile)}

\* The distgit directory after the clone: .oit exists when a snapshot does.
Checkout(df, snap) ==
    (DOCKERFILE :> df)
    @@ (GITIGNORE :> File(<<"distgit-ignore">>))
    @@ (ADDITIONAL_TAGS :> File(<<"latest">>))
    @@ (OLD_TXT :> File(<<"old">>))
    @@ (OLD_DIR :> Dir)
    @@ (DF_CENTOS :> File(<<"FROM", SP, "centos", ":", "6", NL>>))
    @@ (OIT_DIR :> IF snap # Missing THEN Dir ELSE Absent)
    @@ EmptyDir

\* -------------------------------------------------------------------- state
VARIABLES
    cfg,            \* metadata.config
    version,        \* the arguments of update_distgit_dir
    release,
    dir,            \* the entries of distgit_dir
    snapshot,       \* .oit/Dockerfile.git.last, if it exists
    records,        \* what runtime.add_record has been given
    oit_comments,   \* self.oit_comments
    pc,             \* the next step of update_distgit_dir
    err,            \* the error that ended the call
    runs,           \* calls of update_distgit_dir so far
    run,            \* what the current call has done (for the properties)
    history         \* the same for the calls before it

vars == <<cfg, version, release, dir, snapshot, records, oit_comments, pc, err,
          runs, run, history>>

inputs == <<cfg, version, release>>

NewRun(d, snap, recs) ==
    [start_dir |-> d, start_snap |-> snap, start_records |-> Len(recs),
     trail |-> <<>>, cleaned |-> Missing, copied |-> Missing, merged |-> Missing,
     notify |-> Missing,
     seen |-> <<>>, failed_at |-> 0, modified |-> Missing, parsed |-> Missing, written |-> Missing]

Init ==
    /\ cfg \in Configs
    /\ version \in Versions
    /\ release \in Releases
    /\ \E df \in CheckoutDockerfiles, snap \in Snapshots :
          /\ dir = Checkout(df, snap)
          /\ snapshot = snap
    /\ records = <<>>
    /\ oit_comments = <<>>
    /\ pc = "idle"
    /\ err = ""
    /\ runs = 0
    /\ run = NewRun(dir, snapshot, records)
    /\ history = <<>>

\* ------------------------------------------------------------------ actions
\* Lines 221-231: the comment block is reset and .oit is made.
MakeOitDir(d) == IF ~IsDir(d[OIT_DIR]) THEN [d EXCEPT ![OIT_DIR] = Dir] ELSE d

\* Variant: the call extends the comment list it finds instead of resetting it.
BeginKeepComments ==
    /\ pc \in {"idle", "done", "failed"}
    /\ runs < MaxRuns
    /\ oit_comments' = oit_comments \o BaseComments
    /\ dir' = MakeOitDir(dir)
    /\ pc' = "source"
    /\ err' = ""
    /\ runs' = runs + 1
    /\ history' = IF runs = 0 THEN history
                  ELSE Append(history, [result |-> pc, err |-> err, run |-> run,
                                        records |-> records, snapshot |-> snapshot])
    /\ run' = NewRun(dir', snapshot, records)
    /\ UNCHANGED <<inputs, snapshot, records>>

\* Lines 217-231: the start of a call
Begin ==
    /\ pc \in {"idle", "done", "failed"}
    /\ runs < MaxRuns
    /\ oit_comments' = BaseComments
    /\ dir' = MakeOitDir(dir)
    /\ pc' = "source"
    /\ err' = ""
    /\ runs' = runs + 1
    /\ history' = IF runs = 0 THEN history
                  ELSE Append(history, [result |-> pc, err |-> err, run |-> run,
                                        records |-> records, snapshot |-> snapshot])
    /\ run' = NewRun(dir', snapshot, records)
    /\ UNCHANGED <<inputs, snapshot, records>>

\* Lines 234-235: _merge_source
MergeSource ==
    /\ pc = "source"
    /\ SourceConfigured(cfg)
    /\ LET m == merge_source(dir, snapshot, cfg) IN
          /\ dir' = m.dir
          /\ snapshot' = m.snap
          /\ records' = records \o m.records
          /\ oit_comments' = oit_comments \o m.comments
          /\ err' = m.err
          /\ pc' = IF m.err = "" THEN "manifest" ELSE "failed"
          /\ run' = [run EXCEPT !.trail = Append(@, "merge"),
                                !.cleaned = Some(m.cleaned),
                                !.copied = m.copied,
                                !.notify = m.notify,
                                !.merged = IF m.err = "" THEN Some(m.dir) ELSE Missing]
    /\ UNCHANGED <<inputs, runs, history>>

\* Lines 236-241
NoSource ==
    /\ pc = "source"
    /\ ~SourceConfigured(cfg)
    /\ oit_comments' = oit_comments \o NoSourceComments
    /\ pc' = "manifest"
    /\ UNCHANGED <<inputs, dir, snapshot, records, err, runs, run, history>>

\* Variant: the check also accepts the name the rename step produces.
assert_file_either(d) == IsFile(d[DOCKERFILE]) \/ IsFile(d[RENAME_TARGET])

\* assert_file("Dockerfile", ...) in the directory d: whether it passes
assert_file(d) == IsFile(d[DOCKERFILE])

MissingManifest == "assert_file: Unable to find Dockerfile in distgit root"

\* Line 244: assert_file("Dockerfile", ...)
AssertDockerfile ==
    /\ pc = "manifest"
    /\ IF assert_file(dir)
       THEN pc' = "modify" /\ err' = err
       ELSE pc' = "failed" /\ err' = MissingManifest
    /\ run' = [run EXCEPT !.trail = Append(@, "manifest")]
    /\ UNCHANGED <<inputs, dir, snapshot, records, oit_comments, runs, history>>

\* Lines 246-247: _run_modifications
RunModifications ==
    /\ pc = "modify"
    /\ ModificationsConfigured(cfg)
    /\ LET m == run_modifications(dir, cfg) IN
          /\ dir' = m.dir
          /\ err' = m.err
          /\ pc' = IF m.err = "" THEN "rewrite" ELSE "failed"
          /\ run' = [run EXCEPT !.trail = Append(@, "modifications"),
                                !.seen = m.seen,
                                !.failed_at = m.at,
                                !.modified = IF m.err = "" THEN Some(m.dir[DOCKERFILE].data)
                                             ELSE Missing]
    /\ UNCHANGED <<inputs, snapshot, records, oit_comments, runs, history>>

\* Variant: the file that was written is also copied to the snapshot.
RewriteIntoSnapshot ==
    /\ \/ pc = "modify" /\ ~ModificationsConfigured(cfg)
       \/ pc = "rewrite"
    /\ LET content == dir[DOCKERFILE].data
           out == rewrite(content, cfg, version, release, oit_comments)
       IN /\ dir' = [dir EXCEPT ![DOCKERFILE] = File(out)]
          /\ run' = [run EXCEPT !.trail = Append(@, "rewrite"),
                                !.parsed = Some(content),
                                !.written = Some(out)]
    /\ pc' = "done"
    /\ snapshot' = run'.written
    /\ UNCHANGED <<inputs, records, oit_comments, err, runs, history>>

\* Lines 249-299
Rewrite ==
    /\ \/ pc = "modify" /\ ~ModificationsConfigured(cfg)
       \/ pc = "rewrite"
    /\ LET content == dir[DOCKERFILE].data
           out == rewrite(content, cfg, version, release, oit_comments)
       IN /\ dir' = [dir EXCEPT ![DOCKERFILE] = File(out)]
          /\ run' = [run EXCEPT !.trail = Append(@, "rewrite"),
                                !.parsed = Some(content),
                                !.written = Some(out)]
    /\ pc' = "done"
    /\ UNCHANGED <<inputs, snapshot, records, oit_comments, err, runs, history>>

Next ==
    \/ Begin
    \/ MergeSource
    \/ NoSource
    \/ AssertDockerfile
    \/ RunModifications
    \/ Rewrite

Spec == Init /\ [][Next]_vars

\* --------------------------------------------------------------- properties
\* Helpers of the properties below.
LastRun == history[Len(history)]

InTrail(step) == \E i \in 1..Len(run.trail) : run.trail[i] = step

\* m occurs in t as a substring
Occurs(t, m) == \E i \in 1..(Len(t) + 1) : i + Len(m) - 1 <= Len(t) /\ SubSeq(t, i, i + Len(m) - 1) = m

\* the lines of t that start with the marker
MarkerLines(t) ==
    LET ls == SplitLines(t) IN {i \in 1..Len(ls) : StartsWith(ls[i], OIT_COMMENT_PREFIX)}

\* C1: when two successive calls of update_distgit_dir on the same checkout,
\* with the same configuration, version, release and upstream source, both
\* succeed, the second writes the build-file the first one wrote.
C1_Idempotent ==
    (pc = "done" /\ Len(history) >= 1 /\ LastRun.result = "done")
        => run.written = LastRun.run.written

\* C1 restricted to configurations with a source section (for comparison).
C1_IdempotentWithSource ==
    (pc = "done" /\ Len(history) >= 1 /\ LastRun.result = "done" /\ cfg.source # Missing)
        => run.written = LastRun.run.written

\* C2: after a successful rewrite the written build-file has exactly one
\* header block: its first lines are the current comment block, each behind
\* the marker, and no other line starts with the marker.
C2_OneHeaderBlock ==
    pc = "done" =>
        LET ls == SplitLines(Get(run.written))
            n == Len(oit_comments)
        IN /\ Len(ls) >= n
           /\ \A i \in 1..n : ls[i] = OIT_COMMENT_PREFIX \o oit_comments[i]
           /\ MarkerLines(Get(run.written)) = 1..n

\* The merge of r returned and found a snapshot equal to the merged build-file.
MatchingBaseline(r) ==
    /\ r.merged # Missing
    /\ r.start_snap # Missing
    /\ IsFile(Get(r.merged)[DOCKERFILE])
    /\ Get(r.start_snap) = Get(r.merged)[DOCKERFILE].data

\* C3: a call whose merge finds a snapshot equal to the merged build-file
\* adds no record and leaves the snapshot as it was, and so does every call
\* after it.
C3_NoRepeatedNotification ==
    /\ MatchingBaseline(run) =>
          /\ Len(records) = run.start_records
          /\ snapshot = run.start_snap
    /\ \A i \in 1..Len(history) :
          MatchingBaseline(history[i].run) =>
              /\ Len(records) = history[i].run.start_records
              /\ snapshot = history[i].run.start_snap

\* A second call has succeeded on a baseline the first call had to update,
\* with owners to notify: one record from the first call, none since.
C3_Witness ==
    /\ pc = "done"
    /\ Len(history) = 1
    /\ history[1].run.start_snap # Missing
    /\ ~MatchingBaseline(history[1].run)
    /\ MatchingBaseline(run)
    /\ cfg.owners = Some(<<"alice", "bob">>)
    /\ Len(records) = 1

Protected(n) == n[1] = "." \/ n = <<"additional-tags">>

\* C4: the pre-clean keeps every hidden entry and additional-tags as they
\* were and deletes every other entry; an entry it keeps is still present
\* after the merge, and unchanged unless the source holds the same name.
C4_PreCleanPreservation ==
    run.cleaned # Missing =>
        LET cleaned == Get(run.cleaned)
            before == run.start_dir
        IN /\ \A n \in Names :
                 IF Protected(n) THEN cleaned[n] = before[n] ELSE cleaned[n] = Absent
           /\ \A n \in Names :
                 (Protected(n) /\ before[n] # Absent) =>
                     /\ dir[n] # Absent
                     /\ (run.copied = Missing \/ SourceDirs[source_path(cfg).path][n] = Absent)
                            => dir[n] = before[n]

\* A merge has copied over a checkout: old.txt and olddir are gone, .oit and
\* additional-tags are as before, .gitignore is the one of the source.
C4_Witness ==
    /\ run.copied # Missing
    /\ run.start_dir[OLD_TXT] # Absent /\ dir[OLD_TXT] = Absent
    /\ run.start_dir[OLD_DIR] # Absent /\ dir[OLD_DIR] = Absent
    /\ dir[ADDITIONAL_TAGS] = File(<<"latest">>)
    /\ dir[GITIGNORE] = File(<<"upstream-ignore">>)
    /\ dir[OIT_DIR] = Dir

\* C5: without a content.source section a call runs no merge, no drift
\* detection and no modifications: the directory, the snapshot and the
\* records stay as they were until the final write, and the rewriter parses
\* the build-file the checkout held.
C5_NoSourceFrame ==
    (cfg.source = Missing /\ runs >= 1) =>
        /\ ~InTrail("merge") /\ ~InTrail("modifications")
        /\ run.cleaned = Missing /\ run.copied = Missing
        /\ \A n \in Names \ {DOCKERFILE} : dir[n] = run.start_dir[n]
        /\ (run.written = Missing) => dir[DOCKERFILE] = run.start_dir[DOCKERFILE]
        /\ Len(records) = run.start_records
        /\ snapshot = run.start_snap
        /\ (run.parsed # Missing) => Get(run.parsed) = run.start_dir[DOCKERFILE].data

\* A call without a source section has rewritten the build-file of a checkout
\* that holds entries a merge would have deleted.
C5_Witness ==
    /\ cfg.source = Missing
    /\ pc = "done"
    /\ run.parsed = Some(PlainDockerfile)
    /\ dir[OLD_TXT] # Absent
    /\ snapshot # Missing

\* The rules of the configuration and, for rule k of a call that ran the
\* interpreter, the text it was given and the text it left.
ModRules == Get(ModificationsOf(cfg))

TextBefore(k) == run.seen[k]

TextAfter(k) == IF k < Len(run.seen) THEN run.seen[k + 1] ELSE Get(run.modified)

Ineffective == "IOError: replace did not make a change"

\* C6 as stated: a replace rule that is reached and whose match does not
\* occur in the text it is given ends the call with the ineffective-rule
\* error, before the rewriter.
C6_IneffectiveReplaceAsStated ==
    \A k \in 1..Len(run.seen) :
        (/\ ModRules[k].action = "replace"
         /\ ModRules[k].match # Missing
         /\ ~Occurs(TextBefore(k), Get(ModRules[k].match)))
        => /\ pc = "failed" /\ err = Ineffective /\ run.failed_at = k
           /\ ~InTrail("rewrite") /\ run.written = Missing

\* C6, amended: the same for a replace rule that has both match and
\* replacement.
C6_IneffectiveReplace ==
    \A k \in 1..Len(run.seen) :
        (/\ ModRules[k].action = "replace"
         /\ ModRules[k].match # Missing
         /\ ModRules[k].replacement # Missing
         /\ ~Occurs(TextBefore(k), Get(ModRules[k].match)))
        => /\ pc = "failed" /\ err = Ineffective /\ run.failed_at = k
           /\ ~InTrail("rewrite") /\ run.written = Missing

\* The second rule looks for text that only the first rule's input held.
C6_Witness ==
    /\ pc = "failed" /\ err = Ineffective /\ run.failed_at = 2
    /\ ModRules[2].match = Some(<<"RUN", SP, "build">>)
    /\ Occurs(TextBefore(1), <<"RUN", SP, "build">>)
    /\ ~Occurs(TextBefore(2), <<"RUN", SP, "build">>)

\* The text t with the occurrences of a non-empty m, taken from the left
\* without overlap, replaced by r: position i of t is copied, starts an
\* occurrence, or lies inside the occurrence that starts before it.
RECURSIVE Substituted(_, _, _, _)
Substituted(t, m, r, i) ==
    IF i > Len(t) THEN <<>>
    ELSE IF i + Len(m) - 1 <= Len(t) /\ SubSeq(t, i, i + Len(m) - 1) = m
         THEN r \o Substituted(t, m, r, i + Len(m))
         ELSE <<t[i]>> \o Substituted(t, m, r, i + 1)

\* C7 as stated: a replace rule with match and replacement whose match occurs
\* in the text it is given raises no error and leaves the text with every
\* occurrence substituted.
C7_EffectiveReplaceAsStated ==
    \A k \in 1..Len(run.seen) :
        (/\ ModRules[k].action = "replace"
         /\ ModRules[k].match # Missing
         /\ ModRules[k].replacement # Missing
         /\ Occurs(TextBefore(k), Get(ModRules[k].match)))
        => /\ run.failed_at # k
           /\ TextAfter(k) = Substituted(TextBefore(k), Get(ModRules[k].match),
                                         Get(ModRules[k].replacement), 1)

\* C7, amended: the same when the replacement differs from the match.
C7_EffectiveReplace ==
    \A k \in 1..Len(run.seen) :
        (/\ ModRules[k].action = "replace"
         /\ ModRules[k].match # Missing
         /\ ModRules[k].replacement # Missing
         /\ ModRules[k].replacement # ModRules[k].match
         /\ Occurs(TextBefore(k), Get(ModRules[k].match)))
        => /\ run.failed_at # k
           /\ TextAfter(k) = Substituted(TextBefore(k), Get(ModRules[k].match),
                                         Get(ModRules[k].replacement), 1)

\* Two rules were applied; the first replaced both occurrences of its match.
C7_Witness ==
    /\ pc = "rewrite"
    /\ Len(run.seen) = 2
    /\ ModRules[1].match = Some(<<"build">>)
    /\ TextBefore(1) = SrcDockerfile
    /\ ~Occurs(TextAfter(1), <<"build">>)
    /\ Occurs(TextAfter(2), <<"make", SP, "all", SP, "docs">>)

\* The base image the configuration asks for, given the one the build-file had.
ExpectedBaseImage(parsed) ==
    IF cfg.from.stream # Missing THEN Some(resolve_stream(Get(cfg.from.stream)))
    ELSE IF cfg.from.image # Missing THEN cfg.from.image
    ELSE IF cfg.from.member # Missing
         THEN Some(<<resolve_image(Get(cfg.from.member)), ":", version, "-", release>>)
    ELSE DfBaseImage(parsed)

\* C8: the base image of the written build-file is that of the stream if
\* from.stream is configured, else the literal from.image, else
\* name:version-release of the member, else the one the build-file had.
C8_BaseImagePrecedence ==
    pc = "done" => DfBaseImage(Get(run.written)) = ExpectedBaseImage(Get(run.parsed))

\* member and image are both configured, and the literal image is written.
C8_Witness ==
    /\ pc = "done"
    /\ cfg.from.member # Missing /\ cfg.from.image # Missing /\ cfg.from.stream = Missing
    /\ DfBaseImage(Get(run.written)) = Some(<<"base", ":", "latest">>)
    /\ DfBaseImage(Get(run.parsed)) # Some(<<"base", ":", "latest">>)

ForcedLabels == {"name", "com.redhat.component", "version", "release"}

ConfiguredLabels == IF cfg.labels = Missing THEN <<>> ELSE Get(cfg.labels)

ConfiguredKeys == {ConfiguredLabels[i][1] : i \in 1..Len(ConfiguredLabels)}

\* C9: the written build-file declares name, com.redhat.component, version
\* and release with the computed values, every other configured label with
\* its configured value, and every other label with the value it had.
C9_FinalLabels ==
    pc = "done" =>
        LET out == Get(run.written)
            parsed == Get(run.parsed)
        IN /\ ForcedLabels \subseteq DfLabelKeys(out)
           /\ DfLabel(out, "name") = CONFIG_NAME
           /\ DfLabel(out, "com.redhat.component") = METADATA_NAME
           /\ DfLabel(out, "version") = version
           /\ DfLabel(out, "release") = release
           /\ \A i \in 1..Len(ConfiguredLabels) :
                 ConfiguredLabels[i][1] \notin ForcedLabels =>
                     /\ ConfiguredLabels[i][1] \in DfLabelKeys(out)
                     /\ DfLabel(out, ConfiguredLabels[i][1]) = ConfiguredLabels[i][2]
           /\ \A k \in DfLabelKeys(parsed) \ (ForcedLabels \cup ConfiguredKeys) :
                 k \in DfLabelKeys(out) /\ DfLabel(out, k) = DfLabel(parsed, k)
           /\ DfLabelKeys(out) = DfLabelKeys(parsed) \cup ForcedLabels \cup ConfiguredKeys

\* The configuration sets name, version and keep against a build-file that
\* declares name, keep and vendor.
C9_Witness ==
    /\ pc = "done"
    /\ run.parsed = Some(ManagedDockerfile)
    /\ ConfiguredKeys = {"name", "keep", "version"}
    /\ DfLabel(Get(run.written), "name") = CONFIG_NAME
    /\ DfLabel(Get(run.written), "keep") = "configured"
    /\ DfLabel(Get(run.written), "vendor") = "Red Hat"

\* C10: when content.source.dockerfile names a file other than "Dockerfile"
\* and the copy has left a file of that name, the merge leaves it as
\* "Dockerfile", the configured name is gone, and the call gets past the
\* check that "Dockerfile" exists.
C10_ManifestRename ==
    LET dockerfile_name == SourceField(cfg, "dockerfile") IN
    (/\ dockerfile_name # Missing
     /\ Get(dockerfile_name) # DOCKERFILE
     /\ run.copied # Missing
     /\ IsFile(Get(run.copied)[Get(dockerfile_name)]))
    => /\ pc # "failed"
       /\ dir[Get(dockerfile_name)] = Absent
       /\ IsFile(dir[DOCKERFILE])
       /\ pc = "manifest" => dir[DOCKERFILE] = Get(run.copied)[Get(dockerfile_name)]

\* C11: when the call reaches the check of line 244 and the directory holds
\* no file named "Dockerfile", the call fails with the missing-manifest
\* error, with or without a merge before it; neither the modifications nor
\* the rewrite run and no build-file is written.
C11_MissingManifestFatal ==
    (InTrail("manifest") /\ ~IsFile(dir[DOCKERFILE])) =>
        /\ pc = "failed"
        /\ err = MissingManifest
        /\ ~InTrail("modifications") /\ ~InTrail("rewrite")
        /\ run.modified = Missing /\ run.parsed = Missing /\ run.written = Missing
        /\ cfg.source = Missing => dir = run.start_dir

\* A merge from a source tree without build-file has returned, and the check
\* has ended the call.
C11_Witness ==
    /\ pc = "failed"
    /\ err = MissingManifest
    /\ InTrail("merge")
    /\ SourceField(cfg, "dockerfile") = Missing
    /\ run.start_dir[DOCKERFILE] # Absent
    /\ dir[MAIN_GO] # Absent

\* The build-file the merge of the current call left, for a merge that
\* returned with one.
MergedDockerfile == Get(run.merged)[DOCKERFILE].data

\* C12: when the snapshot exists at merge time and the drift step compares
\* it with the merged build-file, notify_owner is set exactly when the two
\* differ; if they differ the snapshot becomes the merged build-file, if they
\* are equal the snapshot stays and no record is added.
C12_DriftWithSnapshot ==
    (run.start_snap # Missing /\ run.notify # Missing) =>
        /\ run.merged # Missing /\ IsFile(Get(run.merged)[DOCKERFILE])
        /\ Get(run.notify) = (Get(run.start_snap) # MergedDockerfile)
        /\ Get(run.start_snap) # MergedDockerfile => snapshot = Some(MergedDockerfile)
        /\ Get(run.start_snap) = MergedDockerfile =>
              /\ snapshot = run.start_snap
              /\ Len(records) = run.start_records

\* A snapshot that differs from the merged build-file has been replaced.
C12_Witness ==
    /\ run.start_snap = Some(PlainDockerfile)
    /\ run.notify = Some(TRUE)
    /\ snapshot = Some(SrcDockerfile)
    /\ MergedDockerfile = SrcDockerfile

FirstRun == IF history = <<>> THEN run ELSE history[1].run

\* C13 as stated: without a snapshot a merge sets notify_owner and creates
\* none, so from a checkout without snapshot the snapshot stays absent and
\* every call with source and owners configured adds a record; the snapshot
\* is written only when one existed and differed.
C13_BootstrapGapAsStated ==
    /\ (run.start_snap = Missing /\ run.notify # Missing) =>
          run.notify = Some(TRUE) /\ snapshot = Missing
    /\ (runs >= 1 /\ FirstRun.start_snap = Missing) => snapshot = Missing
    /\ (/\ run.start_snap = Missing
        /\ pc \in {"done", "failed"}
        /\ cfg.source # Missing
        /\ cfg.owners # Missing) => Len(records) = run.start_records + 1
    /\ snapshot # run.start_snap =>
          run.start_snap # Missing /\ Get(run.start_snap) # MergedDockerfile

\* C13, amended: the record is added by every such call whose merge reaches
\* the drift step.
C13_BootstrapGap ==
    /\ (run.start_snap = Missing /\ run.notify # Missing) =>
          run.notify = Some(TRUE) /\ snapshot = Missing
    /\ (runs >= 1 /\ FirstRun.start_snap = Missing) => snapshot = Missing
    /\ (/\ run.start_snap = Missing
        /\ run.copied # Missing
        /\ SourceField(cfg, "dockerfile") \in {Missing, Some(DOCKERFILE)}
        /\ cfg.owners # Missing) => Len(records) = run.start_records + 1
    /\ (/\ run.start_snap = Missing
        /\ run.notify # Missing
        /\ cfg.owners # Missing) => Len(records) = run.start_records + 1
    /\ snapshot # run.start_snap =>
          run.start_snap # Missing /\ Get(run.start_snap) # MergedDockerfile

\* The third call on a checkout without snapshot has notified like the two
\* before it, and there is still no snapshot.
C13_Witness ==
    /\ pc = "done"
    /\ Len(history) = 2
    /\ history[1].run.start_snap = Missing
    /\ snapshot = Missing
    /\ cfg.owners = Some(<<"alice", "bob">>)
    /\ Len(records) = 3

\* The records the current call has added to the record sink.
NewRecords == SubSeq(records, run.start_records + 1, Len(records))

\* C14: a merge appends a dockerfile_notify record exactly when notify_owner
\* is true and the configuration lists at least one owner; no record when
\* the owner list is absent or empty; at most one record per call, carrying
\* the image name, the absolute build-file path and the comma-joined owners.
C14_NotificationRecord ==
    /\ Len(NewRecords) <= 1
    /\ run.notify # Missing =>
          (Len(NewRecords) = 1 <=>
              /\ Get(run.notify)
              /\ cfg.owners # Missing
              /\ Len(Get(cfg.owners)) >= 1)
    /\ run.notify = Missing => NewRecords = <<>>
    /\ \A i \in 1..Len(NewRecords) :
          /\ NewRecords[i].type = "dockerfile_notify"
          /\ NewRecords[i].distgit = METADATA_NAME
          /\ NewRecords[i].dockerfile = AbsDockerfile
          /\ NewRecords[i].owners = JoinOwners(Get(cfg.owners))

\* The phases a call with the configuration cfg goes through when none fails.
PlannedPhases ==
    (IF cfg.source # Missing THEN <<"merge">> ELSE <<>>)
    \o <<"manifest">>
    \o (IF cfg.source # Missing /\ Get(cfg.source).modifications # Missing
        THEN <<"modifications">> ELSE <<>>)
    \o <<"rewrite">>

IsPrefix(p, t) == Len(p) <= Len(t) /\ SubSeq(t, 1, Len(p)) = p

MergeErrors ==
    {"IOError: no source alias", "IOError: alias not registered",
     "assert_dir: no such directory", "OSError: rename", "OSError: filecmp"}

ModificationErrors ==
    {"AssertionError: match", "AssertionError: replacement",
     "IOError: replace did not make a change", "IOError: unknown modification action"}

\* The phase an error belongs to.
PhaseOf(e) ==
    IF e \in MergeErrors THEN "merge"
    ELSE IF e = MissingManifest THEN "manifest"
    ELSE IF e \in ModificationErrors THEN "modifications"
    ELSE "none"

\* C15: the phases of a call run in the order merge, manifest check,
\* modifications, rewrite; the merge is skipped exactly when content.source
\* is absent and the modifications exactly when content.source.modifications
\* is absent; the call ends at the first failing phase (the last phase
\* executed is the one that failed), and the final state is reached only
\* when every executed phase succeeded.
C15_PhaseOrdering ==
    /\ IsPrefix(run.trail, PlannedPhases)
    /\ pc = "manifest" => (InTrail("merge") <=> cfg.source # Missing)
    /\ pc = "modify" => run.trail[Len(run.trail)] = "manifest"
    /\ pc = "rewrite" => run.trail[Len(run.trail)] = "modifications"
    /\ pc = "failed" <=> err # ""
    /\ pc = "failed" =>
          /\ run.trail # <<>>
          /\ run.trail[Len(run.trail)] = PhaseOf(err)
          /\ Len(run.trail) < Len(PlannedPhases)
          /\ run.written = Missing
    /\ pc = "done" => run.trail = PlannedPhases /\ run.written # Missing

\* A call that failed in its third phase, after an earlier call that failed.
C15_Witness ==
    /\ pc = "failed"
    /\ run.trail = <<"merge", "manifest", "modifications">>
    /\ history # <<>>
    /\ history[1].result = "failed"

\* The comment lines the branch of lines 234-241 adds in a call with cfg.
BranchComments == IF cfg.source # Missing THEN MergeComments ELSE NoSourceComments

\* C16: every call starts with the comment list reset to the three base
\* lines, so once the merge branch has run, and at the time of the final
\* write, the list is the three base lines followed by the four lines of
\* this call's branch, whatever earlier calls (finished or failed) left.
C16_CommentsDoNotAccumulate ==
    /\ Len(BaseComments) = 3 /\ Len(BranchComments) = 4
    /\ pc = "source" => oit_comments = BaseComments
    /\ pc \in {"manifest", "modify", "rewrite", "done"} =>
          /\ oit_comments = BaseComments \o BranchComments
          /\ Len(oit_comments) = 7
    /\ pc = "failed" => oit_comments \in {BaseComments, BaseComments \o BranchComments}

\* The third call on the same instance has written with seven comment lines.
C16_Witness ==
    /\ pc = "done"
    /\ Len(history) = 2
    /\ history[2].result = "done"
    /\ cfg.source # Missing
    /\ Len(oit_comments) = 7

\* Rule k is a replace rule with both fields.
WellFormed(k) ==
    /\ ModRules[k].action = "replace"
    /\ ModRules[k].match # Missing
    /\ ModRules[k].replacement # Missing

\* The text rule k makes of the text t.
RuleResult(k, t) ==
    Substituted(t, Get(ModRules[k].match), Get(ModRules[k].replacement), 1)

\* The error rule k raises on the text t ("" when it raises none).
RuleError(k, t) ==
    IF ModRules[k].action # "replace" THEN "IOError: unknown modification action"
    ELSE IF ModRules[k].match = Missing THEN "AssertionError: match"
    ELSE IF ModRules[k].replacement = Missing THEN "AssertionError: replacement"
    ELSE IF RuleResult(k, t) = t THEN Ineffective
    ELSE ""

\* C17: the rules are applied in list order, rule 1 to the merged build-file
\* and every later rule to the text the rule before it left; the first rule
\* that is not a replace, lacks match or replacement, or changes nothing in
\* the text it is given ends the call there with the error of that cause,
\* and the rules after it are not reached.
C17_SequentialRules ==
    InTrail("modifications") =>
        /\ Len(run.seen) <= Len(ModRules)
        /\ run.seen # <<>> => run.seen[1] = MergedDockerfile
        /\ \A k \in 1..Len(run.seen) :
              k < Len(run.seen) \/ run.failed_at = 0 =>
                 /\ WellFormed(k)
                 /\ RuleError(k, TextBefore(k)) = ""
                 /\ TextAfter(k) = RuleResult(k, TextBefore(k))
        /\ run.failed_at = 0 =>
              /\ Len(run.seen) = Len(ModRules)
              /\ pc # "failed"
              /\ run.modified # Missing
              /\ ModRules = <<>> => run.modified = Some(MergedDockerfile)
        /\ run.failed_at # 0 =>
              /\ run.failed_at = Len(run.seen)
              /\ pc = "failed"
              /\ err # ""
              /\ err = RuleError(run.failed_at, TextBefore(run.failed_at))

\* The second rule matched only in the text the first rule left.
C17_Witness ==
    /\ InTrail("modifications")
    /\ run.failed_at = 0
    /\ Len(run.seen) = 2
    /\ ~Occurs(run.seen[1], Get(ModRules[2].match))
    /\ Occurs(run.seen[2], Get(ModRules[2].match))
    /\ pc = "done"

\* C18: the interpreter writes the build-file only after every rule has been
\* applied; when a rule fails, the checkout, and the build-file in it, is
\* exactly what the interpreter found, with no edit of an earlier rule; when
\* none fails, the build-file is the text the last rule left.
C18_ModificationsAllOrNothing ==
    InTrail("modifications") =>
        /\ run.failed_at # 0 =>
              /\ pc = "failed"
              /\ dir = Get(run.merged)
              /\ dir[DOCKERFILE] = File(run.seen[1])
              /\ run.modified = Missing
        /\ pc = "rewrite" =>
              /\ run.failed_at = 0
              /\ Len(run.seen) = Len(ModRules)
              /\ dir[DOCKERFILE] = File(Get(run.modified))
              /\ \A n \in Names \ {DOCKERFILE} : dir[n] = Get(run.merged)[n]

\* The second rule failed after the first had changed the text in memory.
C18_Witness ==
    /\ InTrail("modifications")
    /\ run.failed_at = 2
    /\ run.seen[2] # run.seen[1]
    /\ dir[DOCKERFILE] = File(run.seen[1])

\* The error the source section of cfg makes the path resolution raise
\* ("" when the path resolves to a directory).
ResolutionError ==
    LET s == Get(cfg.source) IN
    IF s.alias = Missing THEN "IOError: no source alias"
    ELSE IF Get(s.alias) # "A" THEN "IOError: alias not registered"
    ELSE IF s.path # Missing /\ Get(s.path) \notin {"sub", "bare"}
         THEN "assert_dir: no such directory"
    ELSE ""

\* C19: when the source section names no alias, an alias that is not
\* registered, or a path that is not a directory, the merge fails with the
\* error of that cause, and by then the pre-clean has deleted every entry of
\* the checkout that is neither hidden nor additional-tags; nothing has been
\* copied, the snapshot and the record sink are as the call found them, and
\* no build-file is written.
C19_ResolutionFailsAfterPreClean ==
    (InTrail("merge") /\ ResolutionError # "") =>
        /\ pc = "failed"
        /\ err = ResolutionError
        /\ run.trail = <<"merge">>
        /\ \A n \in Names :
              dir[n] = IF Protected(n) THEN run.start_dir[n] ELSE Absent
        /\ run.copied = Missing
        /\ snapshot = run.start_snap
        /\ Len(records) = run.start_records
        /\ run.written = Missing /\ run.modified = Missing

\* The path does not resolve, and entries the checkout held are gone.
C19_Witness ==
    /\ pc = "failed"
    /\ err = "assert_dir: no such directory"
    /\ run.start_dir[DOCKERFILE] # Absent /\ dir[DOCKERFILE] = Absent
    /\ run.start_dir[OLD_TXT] # Absent /\ dir[OLD_TXT] = Absent
    /\ dir[GITIGNORE] = run.start_dir[GITIGNORE] /\ dir[GITIGNORE] # Absent
    /\ run.start_snap # Missing /\ snapshot = run.start_snap

\* C20: whenever a call has changed the snapshot, the snapshot is the
\* build-file as this call's merge copied it from the source tree, before
\* any modification rule and before the rewrite: it carries no managed
\* header line and is not the file the call wrote; no phase after the drift
\* step changes the snapshot.
C20_SnapshotContent ==
    /\ snapshot # run.start_snap =>
          /\ run.merged # Missing
          /\ snapshot = Some(MergedDockerfile)
          /\ MergedDockerfile = Get(run.copied)[DOCKERFILE].data
          /\ MergedDockerfile \in {SrcDockerfile, SrcDockerfileSub}
          /\ MarkerLines(Get(snapshot)) = {}
          /\ run.written # Missing => snapshot # run.written
    /\ run.merged = Missing => snapshot = run.start_snap
    /\ run.merged # Missing =>
          snapshot = IF Get(run.notify) /\ run.start_snap # Missing
                     THEN Some(MergedDockerfile) ELSE run.start_snap

\* The call replaced the snapshot, then modified and rewrote the build-file.
C20_Witness ==
    /\ pc = "done"
    /\ snapshot # run.start_snap
    /\ run.modified # Missing
    /\ Get(run.modified) # MergedDockerfile
    /\ snapshot = Some(MergedDockerfile)
    /\ Get(run.written) # MergedDockerfile

====
